---------------------------- MODULE Spec2Model ----------------------------
(***************************************************************************)
(* Model of amplify/functions/pdf-processor/handler.py: the Lambda         *)
(* `handler` (request adapter) and                                         *)
(* `extract_patient_data_with_claude_pdf_support` (extractor), with the    *)
(* Bedrock `converse` capability as the environment.                       *)
(*                                                                         *)
(* Representation of Python values                                         *)
(*  - a str that the code only slices, searches and concatenates is a      *)
(*    sequence of units; a unit stands for one character (the base64 text  *)
(*    of pdfContent, the braces and commas of a model reply) or for one    *)
(*    indivisible run of characters (a word, a quoted "key":"value" pair,  *)
(*    a literal of the source).  len() and [:n] count units.               *)
(*  - bytes are sequences of integers 0..255, decoded text of the PDF      *)
(*    header is a sequence of code points.                                 *)
(*  - a JSON value is a record tagged by `type` (an array keeps only its   *)
(*    length); a dict is a function from key to JSON value.                *)
(***************************************************************************)
EXTENDS Integers, Sequences, FiniteSets, TLC

VARIABLES
    pc,               \* "idle", "primary", "retry", "done": where the invocation stands
    event,            \* the envelope handed to handler
    context,          \* the Lambda context handed to handler
    pdf_content,      \* handler's pdf_content (the extractor's argument)
    pdf_bytes,        \* extractor: base64.b64decode(pdf_content)
    pdf_version,      \* extractor: pdf_bytes[:8] decoded
    claude_response,  \* extractor: the response chosen for parsing
    i,                \* extractor: index of the running alternative approach
    calls,            \* the converse calls of this invocation, in issue order
    patient_data,     \* what the extractor returned to handler
    raised,           \* TRUE iff an exception left the extractor
    response          \* what handler returned

vars == <<pc, event, context, pdf_content, pdf_bytes, pdf_version,
          claude_response, i, calls, patient_data, raised, response>>

-----------------------------------------------------------------------------
(* Python built-ins used by the source *)

Min(a, b) == IF a < b THEN a ELSE b

\* s[a:b] for 0 <= a, 0 <= b
Slice(s, a, b) == IF Min(b, Len(s)) <= a THEN <<>> ELSE SubSeq(s, a + 1, Min(b, Len(s)))

\* s.find(u): 0-based index of the first u, -1 when there is none
Find(s, u) ==
    IF \E k \in 1..Len(s) : s[k] = u
    THEN (CHOOSE k \in 1..Len(s) : s[k] = u /\ \A j \in 1..(k - 1) : s[j] # u) - 1
    ELSE -1

\* s.rfind(u): 0-based index of the last u, -1 when there is none
RFind(s, u) ==
    IF \E k \in 1..Len(s) : s[k] = u
    THEN (CHOOSE k \in 1..Len(s) : s[k] = u /\ \A j \in (k + 1)..Len(s) : s[j] # u) - 1
    ELSE -1

\* needle in hay, for sequences
Contains(hay, needle) ==
    \E k \in 0..(Len(hay) - Len(needle)) : Slice(hay, k, k + Len(needle)) = needle

\* startswith that looks at the first four bytes only
StartsWith_FourBytes(bytes, prefix) == Slice(bytes, 0, 4) = Slice(prefix, 0, 4)

\* bytes.startswith(prefix)
StartsWith(bytes, prefix) == Slice(bytes, 0, Len(prefix)) = prefix

-----------------------------------------------------------------------------
(* base64.b64decode(pdf_content): binascii.a2b_base64, non-strict mode *)

B64Alphabet ==
    <<"A","B","C","D","E","F","G","H","I","J","K","L","M","N","O","P",
      "Q","R","S","T","U","V","W","X","Y","Z","a","b","c","d","e","f",
      "g","h","i","j","k","l","m","n","o","p","q","r","s","t","u","v",
      "w","x","y","z","0","1","2","3","4","5","6","7","8","9","+","/">>

\* the 6-bit value of a character, 64 for a character outside the alphabet
B64Index(c) ==
    IF \E k \in 1..64 : B64Alphabet[k] = c
    THEN (CHOOSE k \in 1..64 : B64Alphabet[k] = c) - 1
    ELSE 64

RECURSIVE A2B(_, _, _, _, _, _)
A2B(s, k, quad, left, pads, out) ==
    IF k > Len(s)
    THEN IF quad = 0
         THEN [ok |-> TRUE, bytes |-> out, err |-> <<>>]
         ELSE [ok |-> FALSE, bytes |-> <<>>,
               err |-> IF quad = 1
                       THEN <<"Invalid base64-encoded string: number of data characters cannot be 1 more than a multiple of 4">>
                       ELSE <<"Incorrect padding">>]
    ELSE IF s[k] = "="
         THEN IF quad >= 2 /\ quad + pads + 1 >= 4
              THEN [ok |-> TRUE, bytes |-> out, err |-> <<>>]
              ELSE A2B(s, k + 1, quad, left, IF quad >= 2 THEN pads + 1 ELSE pads, out)
         ELSE LET v == B64Index(s[k]) IN
              IF v >= 64
              THEN A2B(s, k + 1, quad, left, pads, out)
              ELSE CASE quad = 0 -> A2B(s, k + 1, 1, v, 0, out)
                     [] quad = 1 -> A2B(s, k + 1, 2, v % 16, 0,
                                        Append(out, left * 4 + (v \div 16)))
                     [] quad = 2 -> A2B(s, k + 1, 3, v % 4, 0,
                                        Append(out, left * 16 + (v \div 4)))
                     [] OTHER    -> A2B(s, k + 1, 0, 0, 0,
                                        Append(out, left * 64 + v))

b64decode(s) == A2B(s, 1, 0, 0, 0, <<>>)

-----------------------------------------------------------------------------
(* bytes.decode('utf-8', errors='ignore'): code points of the well-formed  *)
(* sequences, malformed bytes dropped                                      *)

IsCont(bytes, k) == k <= Len(bytes) /\ bytes[k] >= 128 /\ bytes[k] < 192

RECURSIVE Utf8Ignore(_, _)
Utf8Ignore(bytes, k) ==
    IF k > Len(bytes) THEN <<>>
    ELSE LET b == bytes[k] IN
         IF b < 128 THEN <<b>> \o Utf8Ignore(bytes, k + 1)
         ELSE IF b >= 194 /\ b < 224 /\ IsCont(bytes, k + 1)
         THEN <<(b % 32) * 64 + (bytes[k + 1] % 64)>> \o Utf8Ignore(bytes, k + 2)
         ELSE IF b >= 224 /\ b < 240 /\ IsCont(bytes, k + 1) /\ IsCont(bytes, k + 2)
         THEN <<(b % 16) * 4096 + (bytes[k + 1] % 64) * 64 + (bytes[k + 2] % 64)>>
                  \o Utf8Ignore(bytes, k + 3)
         ELSE Utf8Ignore(bytes, k + 1)

-----------------------------------------------------------------------------
(* JSON values and json.loads *)

Str(s) == [type |-> "string", s |-> s]
Num(n) == [type |-> "number", n |-> n]
Null == [type |-> "null"]
Arr(n) == [type |-> "array", n |-> n]
Obj(f) == [type |-> "object", fields |-> f]

EmptyDict == [k \in {} |-> Null]

\* d[key] = val on a dict
DictPut(d, key, val) ==
    [k \in DOMAIN d \cup {key} |-> IF k = key THEN val ELSE d[k]]

\* dict.get(key, default)
DictGet(d, key, default) == IF key \in DOMAIN d THEN d[key] ELSE default

\* Python truth value of a JSON value
Truthy(v) ==
    CASE v.type = "string" -> v.s # <<>>
      [] v.type = "number" -> v.n # 0
      [] v.type = "array" -> v.n # 0
      [] v.type = "object" -> DOMAIN v.fields # {}
      [] OTHER -> FALSE

\* the base64 texts of the documents the callers send
Pdf13 == <<"J","V","B","E","R","i","0","x","L","j","M","=">>      \* %PDF-1.3
Pdf14 == <<"J","V","B","E","R","i","0","x","L","j","Q","=">>      \* %PDF-1.4
Pdf17 == <<"J","V","B","E","R","i","0","x","L","j","c","=">>      \* %PDF-1.7
Pdf12 == <<"J","V","B","E","R","i","0","x","L","j","I","=">>      \* %PDF-1.2
PdfBare == <<"J","V","B","E","R","i","0","=">>                    \* %PDF-
PdfSpaced == <<"J","V","B","E"," ","R","i","0","x">>              \* %PDF-1 with a blank inside
PdfShort == <<"J","V","B","E","R","g","=","=">>                   \* %PDF
PdfLower == <<"J","X","B","k","Z","i","0","x","L","j","M","=">>   \* %pdf-1.3
PdfShifted == <<"e","C","V","Q","R","E","Y","t","M","S","4","z">> \* x%PDF-1.3
PdfOneOver == <<"J","V","B","E","R">>                             \* 5 data characters
PdfUnpadded == <<"J","V","B","E","R","i","0">>                    \* 7 data characters, no padding

\* the quoted "key": value pairs that occur in the JSON texts of the model
PairTable ==
    [u \in {"\"firstName\":\"Jane\"", "\"firstName\":\"Ann\"", "\"firstName\":\"Bob\"",
            "\"lastName\":\"Doe\"", "\"dateOfBirth\":\"1990-01-15\"",
            "\"debugInfo\":\"An intake form\"", "\"debugInfo\":\"The page looks Blank\"",
            "\"age\":41", "\"other\":\"x\"",
            "\"pdfContent\":\"\"", "\"pdfContent\":5", "\"pdfContent\":0",
            "\"pdfContent\":null", "\"pdfContent\":[1]",
            "\"pdfContent\":\"%PDF-1.2\"",
            "\"pdfContent\":\"%PDF-1.3\"", "\"pdfContent\":\"%PDF-1.4\"",
            "\"pdfContent\":\"%PDF-1.7\"", "\"pdfContent\":\"%PDF-\"",
            "\"pdfContent\":\"%PDF-1 spaced\"", "\"pdfContent\":\"%PDF\"",
            "\"pdfContent\":\"%pdf-1.3\"", "\"pdfContent\":\"x%PDF-1.3\"",
            "\"pdfContent\":\"5 characters\"", "\"pdfContent\":\"unpadded\""} |->
        CASE u = "\"firstName\":\"Jane\"" -> [key |-> "firstName", val |-> Str(<<"Jane">>)]
          [] u = "\"firstName\":\"Ann\"" -> [key |-> "firstName", val |-> Str(<<"Ann">>)]
          [] u = "\"firstName\":\"Bob\"" -> [key |-> "firstName", val |-> Str(<<"Bob">>)]
          [] u = "\"lastName\":\"Doe\"" -> [key |-> "lastName", val |-> Str(<<"Doe">>)]
          [] u = "\"dateOfBirth\":\"1990-01-15\"" -> [key |-> "dateOfBirth", val |-> Str(<<"1990-01-15">>)]
          [] u = "\"debugInfo\":\"An intake form\"" -> [key |-> "debugInfo", val |-> Str(<<"An intake form">>)]
          [] u = "\"debugInfo\":\"The page looks Blank\"" -> [key |-> "debugInfo", val |-> Str(<<"The page looks Blank">>)]
          [] u = "\"age\":41" -> [key |-> "age", val |-> Num(41)]
          [] u = "\"other\":\"x\"" -> [key |-> "other", val |-> Str(<<"x">>)]
          [] u = "\"pdfContent\":\"\"" -> [key |-> "pdfContent", val |-> Str(<<>>)]
          [] u = "\"pdfContent\":5" -> [key |-> "pdfContent", val |-> Num(5)]
          [] u = "\"pdfContent\":0" -> [key |-> "pdfContent", val |-> Num(0)]
          [] u = "\"pdfContent\":null" -> [key |-> "pdfContent", val |-> Null]
          [] u = "\"pdfContent\":[1]" -> [key |-> "pdfContent", val |-> Arr(1)]
          [] u = "\"pdfContent\":\"%PDF-1.3\"" -> [key |-> "pdfContent", val |-> Str(Pdf13)]
          [] u = "\"pdfContent\":\"%PDF-1.4\"" -> [key |-> "pdfContent", val |-> Str(Pdf14)]
          [] u = "\"pdfContent\":\"%PDF-1.2\"" -> [key |-> "pdfContent", val |-> Str(Pdf12)]
          [] u = "\"pdfContent\":\"%PDF-1.7\"" -> [key |-> "pdfContent", val |-> Str(Pdf17)]
          [] u = "\"pdfContent\":\"%PDF-\"" -> [key |-> "pdfContent", val |-> Str(PdfBare)]
          [] u = "\"pdfContent\":\"%PDF-1 spaced\"" -> [key |-> "pdfContent", val |-> Str(PdfSpaced)]
          [] u = "\"pdfContent\":\"%PDF\"" -> [key |-> "pdfContent", val |-> Str(PdfShort)]
          [] u = "\"pdfContent\":\"%pdf-1.3\"" -> [key |-> "pdfContent", val |-> Str(PdfLower)]
          [] u = "\"pdfContent\":\"x%PDF-1.3\"" -> [key |-> "pdfContent", val |-> Str(PdfShifted)]
          [] u = "\"pdfContent\":\"5 characters\"" -> [key |-> "pdfContent", val |-> Str(PdfOneOver)]
          [] OTHER -> [key |-> "pdfContent", val |-> Str(PdfUnpadded)]]

\* the units that are a complete JSON value other than an object
ScalarTable ==
    [u \in {"[1]", "\"text\"", "5", "null"} |->
        CASE u = "[1]" -> Arr(1)
          [] u = "\"text\"" -> Str(<<"text">>)
          [] u = "5" -> Num(5)
          [] OTHER -> Null]

\* the members of an object, from s[k] on; st is what the decoder expects:
\* "first" (a pair or the closing brace), "pair" (a pair), "sep" (a comma or
\* the closing brace).  A repeated key keeps its last value.
RECURSIVE ParseMembers(_, _, _, _)
ParseMembers(s, k, st, acc) ==
    IF k > Len(s)
    THEN [ok |-> FALSE, value |-> Null,
          err |-> IF st = "sep" THEN <<"Expecting ',' delimiter">>
                  ELSE <<"Expecting property name enclosed in double quotes">>]
    ELSE IF st \in {"first", "sep"} /\ s[k] = "}"
    THEN IF k = Len(s)
         THEN [ok |-> TRUE, value |-> Obj(acc), err |-> <<>>]
         ELSE [ok |-> FALSE, value |-> Null, err |-> <<"Extra data">>]
    ELSE IF st = "sep"
    THEN IF s[k] = ","
         THEN ParseMembers(s, k + 1, "pair", acc)
         ELSE [ok |-> FALSE, value |-> Null, err |-> <<"Expecting ',' delimiter">>]
    ELSE IF s[k] \in DOMAIN PairTable
         THEN ParseMembers(s, k + 1, "sep",
                           DictPut(acc, PairTable[s[k]].key, PairTable[s[k]].val))
         ELSE [ok |-> FALSE, value |-> Null,
               err |-> <<"Expecting property name enclosed in double quotes">>]

\* json.loads(s): the value, or the message of the JSONDecodeError
loads(s) ==
    IF s = <<>> THEN [ok |-> FALSE, value |-> Null, err |-> <<"Expecting value">>]
    ELSE IF s[1] = "{" THEN ParseMembers(s, 2, "first", EmptyDict)
    ELSE IF s[1] \in DOMAIN ScalarTable
    THEN IF Len(s) = 1
         THEN [ok |-> TRUE, value |-> ScalarTable[s[1]], err |-> <<>>]
         ELSE [ok |-> FALSE, value |-> Null, err |-> <<"Extra data">>]
    ELSE [ok |-> FALSE, value |-> Null, err |-> <<"Expecting value">>]

\* json.dumps(m): the text of m, kept apart from m itself
dumps(m) == [json |-> m]

-----------------------------------------------------------------------------
(* extract_patient_data_with_claude_pdf_support: the parts between calls *)

None == [none |-> TRUE]

PreviewLen == 200

\* the error-annotated record of the failure paths
FailRecord(debug) ==
    [k \in {"debugInfo", "firstName", "lastName", "dateOfBirth"} |->
        IF k = "debugInfo" THEN Str(debug) ELSE Str(<<>>)]

PdfSignature == <<37, 80, 68, 70, 45>>     \* b'%PDF-'

\* pdf_bytes[:8].decode('utf-8', errors='ignore')
PdfVersion(bytes) == Utf8Ignore(Slice(bytes, 0, 8), 1)

SimplifiedPrompt == "Please analyze this PDF document and extract patient information. ..."
StandardPrompt == "You are a medical document analysis AI specialized in extracting patient information ..."

\* the messages of the primary call: "1.3" in pdf_version picks the short prompt
PrimaryMessages(version, bytes) ==
    IF Contains(version, <<49, 46, 51>>)
    THEN [text |-> SimplifiedPrompt, name |-> "medicalDocument", bytes |-> bytes]
    ELSE [text |-> StandardPrompt, name |-> "patientDocument", bytes |-> bytes]

alternative_approaches(bytes) ==
    << [name |-> "Simplified prompt",
        messages |-> [text |-> "Extract patient information from this PDF. ...",
                      name |-> "patientFile", bytes |-> bytes]],
       [name |-> "Different model",
        messages |-> [text |-> "Analyze this PDF and extract patient data. ...",
                      name |-> "medicalRecord", bytes |-> bytes]] >>

ModelId == "anthropic.claude-3-5-sonnet-20241022-v2:0"

\* a converse call as it is issued; its outcome is filled in when it completes
Call(messages) ==
    [modelId |-> ModelId, messages |-> messages, status |-> "pending", text |-> <<>>]

\* str.lower() of a unit
LowerUnit(u) ==
    CASE u = "Empty" -> "empty"
      [] u = "EMPTY" -> "empty"
      [] u = "BLANK" -> "blank"
      [] u = "\"debugInfo\":\"The page looks Blank\"" -> "\"debuginfo\":\"the page looks blank\""
      [] u = "\"debugInfo\":\"An intake form\"" -> "\"debuginfo\":\"an intake form\""
      [] u = "\"firstName\":\"Jane\"" -> "\"firstname\":\"jane\""
      [] u = "\"firstName\":\"Ann\"" -> "\"firstname\":\"ann\""
      [] u = "\"firstName\":\"Bob\"" -> "\"firstname\":\"bob\""
      [] u = "\"lastName\":\"Doe\"" -> "\"lastname\":\"doe\""
      [] u = "\"dateOfBirth\":\"1990-01-15\"" -> "\"dateofbirth\":\"1990-01-15\""
      [] OTHER -> u

lower(s) == [k \in 1..Len(s) |-> LowerUnit(s[k])]

\* word in s, for the two words the source looks for
HasWord(s, word) ==
    \E k \in 1..Len(s) :
        \/ s[k] = word
        \/ word = "blank" /\ s[k] = "\"debuginfo\":\"the page looks blank\""

\* "empty" in r.lower() or "blank" in r.lower()
SignalsEmpty(r) == HasWord(lower(r), "empty") \/ HasWord(lower(r), "blank")

\* `and` for `or` in the test for a missing brace
ParseResponse_BothMissing(claude) ==
    LET json_start == Find(claude, "{")
        json_end == RFind(claude, "}") + 1
        parsed == loads(Slice(claude, json_start, json_end))
    IN  IF json_start = -1 /\ json_end = 0
        THEN FailRecord(<<"No JSON response from Claude. Response: ">>
                            \o Slice(claude, 0, PreviewLen))
        ELSE IF parsed.ok
        THEN parsed.value.fields
        ELSE FailRecord(<<"JSON parsing error: ">> \o parsed.err \o <<". Response: ">>
                            \o Slice(claude, 0, PreviewLen))

\* lines 221-248: the JSON between the first '{' and the last '}' of the response
ParseResponse(claude) ==
    LET json_start == Find(claude, "{")
        json_end == RFind(claude, "}") + 1
        parsed == loads(Slice(claude, json_start, json_end))
    IN  IF json_start = -1 \/ json_end = 0
        THEN FailRecord(<<"No JSON response from Claude. Response: ">>
                            \o Slice(claude, 0, PreviewLen))
        ELSE IF parsed.ok
        THEN parsed.value.fields
        ELSE FailRecord(<<"JSON parsing error: ">> \o parsed.err \o <<". Response: ">>
                            \o Slice(claude, 0, PreviewLen))

\* a normal return of the extractor
Returned(record) == [raised |-> FALSE, msg |-> <<>>, value |-> record]

\* no except clause: the exception leaves the extractor
ExtractorExcept_Propagates(msg) == [raised |-> TRUE, msg |-> msg, value |-> None]

\* lines 250-252: the except clause around the whole extractor
ExtractorExcept(msg) ==
    [raised |-> FALSE, msg |-> <<>>,
     value |-> FailRecord(<<"Bedrock Claude PDF support error: ">> \o msg)]

\* lines 18-31 and 49-129: from entry to the first converse call.  `goes` tells
\* whether the extractor returns ("return") or issues the call ("call").
ExtractorStart(content) ==
    LET decoded == b64decode(content)
        version == PdfVersion(decoded.bytes)
    IN  IF ~decoded.ok
        THEN [goes |-> "return", out |-> ExtractorExcept(decoded.err),
              bytes |-> <<>>, version |-> <<>>, call |-> None]
        ELSE IF ~StartsWith(decoded.bytes, PdfSignature)
        THEN [goes |-> "return",
              out |-> Returned(FailRecord(<<"Invalid PDF file - missing PDF header">>)),
              bytes |-> decoded.bytes, version |-> <<>>, call |-> None]
        ELSE [goes |-> "call", out |-> None,
              bytes |-> decoded.bytes, version |-> version,
              call |-> Call(PrimaryMessages(version, decoded.bytes))]

-----------------------------------------------------------------------------
(* handler *)

\* the headers of the CORS preflight response, lines 270-274
PreflightHeaders ==
    ("Access-Control-Allow-Origin" :> "*")
    @@ ("Access-Control-Allow-Methods" :> "POST, OPTIONS")
    @@ ("Access-Control-Allow-Headers" :> "Content-Type, Authorization")

\* the headers of every other response, lines 282-287 and the like
JsonHeaders ==
    ("Content-Type" :> "application/json")
    @@ ("Access-Control-Allow-Origin" :> "*")
    @@ ("Access-Control-Allow-Methods" :> "POST, OPTIONS, GET")
    @@ ("Access-Control-Allow-Headers" :>
            "Content-Type, X-Amz-Date, Authorization, X-Api-Key, X-Amz-Security-Token")

\* a 4xx response with its {success: False, error: ...} body
ErrorResponse(status, error) ==
    [statusCode |-> status, headers |-> JsonHeaders,
     body |-> dumps([success |-> FALSE, error |-> error])]

\* the name Python gives the type of a JSON value in an AttributeError
TypeName(v) ==
    CASE v.type = "array" -> "'list'"
      [] v.type = "string" -> "'str'"
      [] v.type = "number" -> "'int'"
      [] v.type = "null" -> "'NoneType'"
      [] OTHER -> "'dict'"

\* the 500 response built with the headers of the preflight response
HandlerExcept_PreflightHeaders(ev, msg) ==
    LET error_result == [success |-> FALSE, error |-> <<"Internal server error: ">> \o msg]
    IN  IF "httpMethod" \notin DOMAIN ev
        THEN error_result
        ELSE [statusCode |-> 500, headers |-> PreflightHeaders, body |-> dumps(error_result)]

\* lines 426-448: the except clause around the whole handler
HandlerExcept(ev, msg) ==
    LET error_result == [success |-> FALSE, error |-> <<"Internal server error: ">> \o msg]
    IN  IF "httpMethod" \notin DOMAIN ev
        THEN error_result
        ELSE [statusCode |-> 500, headers |-> JsonHeaders, body |-> dumps(error_result)]

EmptyBody == [text |-> <<>>, b64 |-> [ok |-> TRUE, text |-> <<>>, err |-> <<>>]]

\* lines 330-379: json.loads(body) and the checks of the pdfContent field
ValidatePayload(ev, body) ==
    LET parsed == loads(body)
        request_data == parsed.value
        content == DictGet(request_data.fields, "pdfContent", Str(<<>>))
    IN  IF ~parsed.ok
        THEN [returns |-> TRUE, content |-> <<>>,
              response |-> ErrorResponse(400, <<"Invalid JSON in request body: ">> \o parsed.err)]
        ELSE IF request_data.type # "object"
        THEN [returns |-> TRUE, content |-> <<>>,
              response |-> HandlerExcept(ev, <<TypeName(request_data),
                                               " object has no attribute 'get'">>)]
        ELSE IF ~Truthy(content)
        THEN [returns |-> TRUE, content |-> <<>>,
              response |-> ErrorResponse(400,
                  <<"No PDF content found in request. Expected \"pdfContent\" field.">>)]
        ELSE IF content.type # "string"
        THEN [returns |-> TRUE, content |-> <<>>,
              response |-> ErrorResponse(400, <<"PDF content must be a string.">>)]
        ELSE [returns |-> FALSE, content |-> content.s, response |-> None]

\* lines 261-379: from entry to the call of the extractor.  `returns` tells
\* whether handler returned `response` before it got there.
Validate(ev) ==
    LET http_method == DictGet(ev, "httpMethod", "")
        body == DictGet(ev, "body", EmptyBody)
    IN  IF http_method = "OPTIONS"
        THEN [returns |-> TRUE, content |-> <<>>,
              response |-> [statusCode |-> 200, headers |-> PreflightHeaders,
                            body |-> [text |-> <<>>]]]
        ELSE IF http_method # "POST"
        THEN [returns |-> TRUE, content |-> <<>>,
              response |-> ErrorResponse(405,
                  <<"Method not allowed. Only POST requests are supported.">>)]
        ELSE IF body.text = <<>>
        THEN [returns |-> TRUE, content |-> <<>>,
              response |-> ErrorResponse(400, <<"No PDF content provided in request body.">>)]
        ELSE IF DictGet(ev, "isBase64Encoded", FALSE)
        THEN IF body.b64.ok
             THEN ValidatePayload(ev, body.b64.text)
             ELSE [returns |-> TRUE, content |-> <<>>,
                   response |-> ErrorResponse(400,
                       <<"Failed to decode request body: ">> \o body.b64.err)]
        ELSE ValidatePayload(ev, body.text)

\* lines 398-424: the result of a processed request, raw or in its envelope
Finish(ev, ctx, content, data) ==
    LET processing_result ==
            [success |-> TRUE,
             message |-> "PDF received and processed successfully",
             contentLength |-> Len(content),
             timestamp |-> IF ctx # None THEN ctx.aws_request_id ELSE "unknown",
             debugInfo |-> DictGet(data, "debugInfo", Str(<<"No debug info available">>)),
             patientData |-> data]
    IN  IF "httpMethod" \notin DOMAIN ev
        THEN processing_result
        ELSE [statusCode |-> 200, headers |-> JsonHeaders, body |-> dumps(processing_result)]

\* line 385 onwards: what handler returns once the extractor has come back
\* with `out`, a record or an exception
AfterExtractor(ev, ctx, content, out) ==
    IF out.raised
    THEN HandlerExcept(ev, out.msg)
    ELSE Finish(ev, ctx, content, out.value)

-----------------------------------------------------------------------------
(* the invocations the model draws from *)

ErrPadding == <<"Incorrect padding">>
ErrOneOver == <<"Invalid base64-encoded string: number of data characters cannot be 1 more than a multiple of 4">>
ErrUtf8 == <<"'utf-8' codec can't decode byte: invalid start byte">>

\* a body string seen through the two ways handler reads it: as text, and
\* through base64.b64decode(body).decode('utf-8')
Body(text, ok, decoded, err) == [text |-> text, b64 |-> [ok |-> ok, text |-> decoded, err |-> err]]

\* a JSON text sent as it is; decoding it as base64 fails with err
Plain(text, err) == Body(text, FALSE, <<>>, err)

\* a JSON text sent base64-encoded
Encoded(text) == Body(<<"<base64>">>, TRUE, text, <<>>)

Payload(pair) == <<"{", pair, "}">>

Bodies ==
    { Plain(Payload("\"pdfContent\":\"%PDF-1.3\""), ErrOneOver),
      Plain(Payload("\"pdfContent\":\"%PDF-1.4\""), ErrOneOver),
      Plain(Payload("\"pdfContent\":\"%PDF-1.2\""), ErrOneOver),
      Plain(Payload("\"pdfContent\":\"%PDF-1.7\""), ErrOneOver),
      Plain(Payload("\"pdfContent\":\"%PDF-\""), ErrOneOver),
      Plain(Payload("\"pdfContent\":\"%PDF-1 spaced\""), ErrPadding),
      Plain(Payload("\"pdfContent\":\"%PDF\""), ErrUtf8),
      Plain(Payload("\"pdfContent\":\"%pdf-1.3\""), ErrOneOver),
      Plain(Payload("\"pdfContent\":\"x%PDF-1.3\""), ErrPadding),
      Plain(Payload("\"pdfContent\":\"5 characters\""), ErrPadding),
      Plain(Payload("\"pdfContent\":\"unpadded\""), ErrOneOver),
      Plain(Payload("\"pdfContent\":\"\""), ErrPadding),
      Plain(Payload("\"pdfContent\":5"), ErrPadding),
      Plain(Payload("\"pdfContent\":0"), ErrPadding),
      Plain(Payload("\"pdfContent\":null"), ErrPadding),
      Plain(Payload("\"pdfContent\":[1]"), ErrPadding),
      Plain(Payload("\"other\":\"x\""), ErrPadding),
      Plain(<<"{", "\"other\":\"x\"", ",", "\"pdfContent\":\"%PDF-1.7\"", "}">>, ErrPadding),
      Body(<<"{", "}">>, TRUE, <<>>, <<>>),
      Plain(<<"[1]">>, ErrOneOver),
      Plain(<<"\"text\"">>, ErrUtf8),
      Plain(<<"5">>, ErrOneOver),
      Plain(<<"null">>, ErrUtf8),
      Plain(<<"{", "oops">>, ErrUtf8),
      Plain(<<"not", "json">>, ErrPadding),
      EmptyBody,
      Encoded(Payload("\"pdfContent\":\"%PDF-1.3\"")),
      Encoded(Payload("\"pdfContent\":\"%PDF\"")),
      Encoded(<<"{", "}">>),
      Encoded(<<"[1]">>),
      Encoded(<<"not", "json">>),
      Body(<<"<base64>">>, FALSE, <<>>, ErrUtf8) }

Methods == {"OPTIONS", "POST", "GET", "PUT"}

\* the envelopes: any of the three keys handler reads may be missing
EventOf(ks, m, b, f) ==
    [k \in ks |-> CASE k = "httpMethod" -> m [] k = "body" -> b [] OTHER -> f]

Events ==
    { EventOf(ks, m, b, f) : ks \in SUBSET {"httpMethod", "body", "isBase64Encoded"},
                             m \in Methods, b \in Bodies, f \in BOOLEAN }

Contexts == {None, [aws_request_id |-> "req-1"]}

LongLen == 250

\* the texts converse may answer with
Responses ==
    { <<"here", "{", "\"debugInfo\":\"An intake form\"", ",", "\"firstName\":\"Jane\"", ",",
        "\"lastName\":\"Doe\"", ",", "\"dateOfBirth\":\"1990-01-15\"", "}">>,
      <<"{", "\"firstName\":\"Ann\"", "}">>,
      <<"{", "\"firstName\":\"Jane\"", ",", "\"age\":41", "}", "done">>,
      <<"the", "document", "is", "Empty">>,
      <<"{", "\"debugInfo\":\"The page looks Blank\"", ",", "\"firstName\":\"Ann\"", "}">>,
      <<"EMPTY", "{", "\"firstName\":\"Bob\"", ",", "\"lastName\":\"Doe\"", "}">>,
      <<"the", "document", "is", "readable">>,
      <<"{", "\"firstName\":\"Jane\"">>,
      <<"\"firstName\":\"Jane\"", "}">>,
      <<"}", "blank", "{">>,
      <<"}", "is", "{">>,
      <<"{", "document", "}">>,
      <<"{", "\"firstName\":\"Jane\"", "}", "}">>,
      [k \in 1..LongLen |-> "x"] }

\* the messages of the exceptions converse may raise
Failures == { <<"ThrottlingException">>, <<"Read timeout on endpoint URL">> }

-----------------------------------------------------------------------------
(* the invocation as a state machine: it stops only at a converse call *)

Init ==
    /\ pc = "idle"
    /\ event = None
    /\ context = None
    /\ pdf_content = <<>>
    /\ pdf_bytes = <<>>
    /\ pdf_version = <<>>
    /\ claude_response = <<>>
    /\ i = 0
    /\ calls = <<>>
    /\ patient_data = None
    /\ raised = FALSE
    /\ response = None

\* the last call of the log, completed
Completed(status, text) ==
    [calls EXCEPT ![Len(calls)] = [@ EXCEPT !.status = status, !.text = text]]

\* the extractor comes back to handler with `out` and handler returns
Return(ev, ctx, content, out, log) ==
    /\ pc' = "done"
    /\ calls' = log
    /\ patient_data' = IF out.raised THEN None ELSE out.value
    /\ raised' = out.raised
    /\ response' = AfterExtractor(ev, ctx, content, out)

\* handler(event, context) up to its return or to the primary converse call
Invoke(ev, ctx) ==
    /\ pc = "idle"
    /\ event' = ev
    /\ context' = ctx
    /\ LET v == Validate(ev)
           start == ExtractorStart(v.content)
       IN  IF v.returns
           THEN /\ pc' = "done"
                /\ response' = v.response
                /\ UNCHANGED <<pdf_content, pdf_bytes, pdf_version, claude_response, i,
                               calls, patient_data, raised>>
           ELSE /\ pdf_content' = v.content
                /\ pdf_bytes' = start.bytes
                /\ pdf_version' = start.version
                /\ UNCHANGED <<claude_response, i>>
                /\ IF start.goes = "return"
                   THEN Return(ev, ctx, v.content, start.out, calls)
                   ELSE /\ pc' = "primary"
                        /\ calls' = <<start.call>>
                        /\ UNCHANGED <<patient_data, raised, response>>

\* the loop breaks without taking the response of the approach
AfterAlternative_KeepsCurrent(alt, current) ==
    [break |-> ~SignalsEmpty(alt), chosen |-> current]

\* the loop takes a good response but tries the next approach all the same
AfterAlternative_NeverBreaks(alt, current) ==
    [break |-> FALSE, chosen |-> IF ~SignalsEmpty(alt) THEN alt ELSE current]

\* the loop takes the response of every approach
AfterAlternative_TakesLast(alt, current) ==
    [break |-> ~SignalsEmpty(alt), chosen |-> alt]

\* lines 209-215: what the loop does with the response `alt` of an
\* approach, `current` being claude_response: it takes alt and breaks when alt
\* does not report an empty document, and keeps current otherwise
AfterAlternative(alt, current) ==
    IF ~SignalsEmpty(alt)
    THEN [break |-> TRUE, chosen |-> alt]
    ELSE [break |-> FALSE, chosen |-> current]

\* lines 221-248 and the return to handler: the chosen response is parsed
ParseAndReturn(chosen, log) ==
    /\ claude_response' = chosen
    /\ i' = i
    /\ Return(event, context, pdf_content, Returned(ParseResponse(chosen)), log)

\* lines 193-204: the loop moves on to approach `next` (0-based) and issues
\* its call, or is over and the chosen response is parsed
NextApproach(next, chosen, log) ==
    IF next < Len(alternative_approaches(pdf_bytes))
    THEN /\ pc' = "retry"
         /\ i' = next
         /\ claude_response' = chosen
         /\ calls' = Append(log, Call(alternative_approaches(pdf_bytes)[next + 1].messages))
         /\ UNCHANGED <<patient_data, raised, response>>
    ELSE ParseAndReturn(chosen, log)

\* the pending converse call returns `text`
ConverseReturns(text) ==
    /\ pc \in {"primary", "retry"}
    /\ UNCHANGED <<event, context, pdf_content, pdf_bytes, pdf_version>>
    /\ LET log == Completed("returned", text)
           step == AfterAlternative(text, claude_response)
       IN  IF pc = "primary"
           THEN IF SignalsEmpty(text)
                THEN NextApproach(0, text, log)
                ELSE ParseAndReturn(text, log)
           ELSE IF step.break
                THEN ParseAndReturn(step.chosen, log)
                ELSE NextApproach(i + 1, step.chosen, log)

\* the pending converse call raises an exception with message `msg`: the
\* primary call is inside the outer try only, an alternative approach is
\* inside the try of the loop, whose except clause says `continue`
ConverseRaises(msg) ==
    /\ pc \in {"primary", "retry"}
    /\ UNCHANGED <<event, context, pdf_content, pdf_bytes, pdf_version>>
    /\ LET log == Completed("raised", msg) IN
       IF pc = "primary"
       THEN /\ UNCHANGED <<claude_response, i>>
            /\ Return(event, context, pdf_content, ExtractorExcept(msg), log)
       ELSE NextApproach(i + 1, claude_response, log)

Next ==
    \/ \E ev \in Events, ctx \in Contexts : Invoke(ev, ctx)
    \/ \E text \in Responses : ConverseReturns(text)
    \/ \E msg \in Failures : ConverseRaises(msg)

Spec == Init /\ [][Next]_vars

-----------------------------------------------------------------------------
(* vocabulary of the properties *)

\* the replies of Responses that contain "empty" or "blank" in any case
EmptyReplies ==
    { <<"the", "document", "is", "Empty">>,
      <<"{", "\"debugInfo\":\"The page looks Blank\"", ",", "\"firstName\":\"Ann\"", "}">>,
      <<"EMPTY", "{", "\"firstName\":\"Bob\"", ",", "\"lastName\":\"Doe\"", "}">>,
      <<"}", "blank", "{">> }

\* the record with the given debugInfo and the three patient fields empty
Annotated(debug) ==
    [debugInfo |-> Str(debug), firstName |-> Str(<<>>),
     lastName |-> Str(<<>>), dateOfBirth |-> Str(<<>>)]

\* the text handler parses as JSON: the body, base64-decoded when the
\* envelope says so
BodyText(ev) ==
    IF "body" \notin DOMAIN ev THEN <<>>
    ELSE IF "isBase64Encoded" \in DOMAIN ev /\ ev["isBase64Encoded"]
    THEN IF ev["body"].b64.ok THEN ev["body"].b64.text ELSE <<>>
    ELSE ev["body"].text

\* the body is a JSON object with a non-empty string pdfContent
CarriesPdfContent(ev) ==
    LET parsed == loads(BodyText(ev)) IN
    /\ parsed.ok
    /\ parsed.value.type = "object"
    /\ "pdfContent" \in DOMAIN parsed.value.fields
    /\ parsed.value.fields["pdfContent"].type = "string"
    /\ parsed.value.fields["pdfContent"].s # <<>>

\* the body is not empty, decodes and parses as JSON, and the value has no
\* pdfContent field
LacksPdfContent(ev) ==
    LET parsed == loads(BodyText(ev)) IN
    /\ "body" \in DOMAIN ev
    /\ ev["body"].text # <<>>
    /\ parsed.ok
    /\ \/ parsed.value.type # "object"
       \/ "pdfContent" \notin DOMAIN parsed.value.fields

\* handler answered with an HTTP envelope
IsEnvelope(r) == "statusCode" \in DOMAIN r

\* the k-th converse call of the invocation returned a text
ReturnedAt(k) == k <= Len(calls) /\ calls[k].status = "returned"

\* the first n units of a text
FirstUnits(r, n) == [k \in 1..Min(Len(r), n) |-> r[k]]

-----------------------------------------------------------------------------
(* properties *)

\* C1: an envelope without httpMethod whose body is a JSON object with a
\* non-empty string pdfContent gets the raw result mapping (success = true,
\* message, contentLength, timestamp, debugInfo, patientData) and no
\* statusCode/headers/body envelope; a status 200 envelope is returned only
\* when httpMethod is present.
C1_DirectInvocationReturnsRaw ==
    pc = "done" =>
        /\ ("httpMethod" \notin DOMAIN event /\ CarriesPdfContent(event)) =>
               /\ ~IsEnvelope(response)
               /\ DOMAIN response = {"success", "message", "contentLength", "timestamp",
                                     "debugInfo", "patientData"}
               /\ response.success = TRUE
        /\ (IsEnvelope(response) /\ response.statusCode = 200) =>
               "httpMethod" \in DOMAIN event

\* C2: a POST whose non-empty body parses as JSON but carries no pdfContent
\* field (an object without the key, an array, a string, a number, null) is
\* answered with status 400, success = false and the error that names the
\* pdfContent field, never with 500, and the extractor is not called.
C2_MissingFieldIs400 ==
    (pc = "done" /\ "httpMethod" \in DOMAIN event /\ event["httpMethod"] = "POST"
        /\ LacksPdfContent(event)) =>
        /\ IsEnvelope(response)
        /\ response.statusCode = 400
        /\ response.body.json.success = FALSE
        /\ response.body.json.error =
               <<"No PDF content found in request. Expected \"pdfContent\" field.">>
        /\ pdf_content = <<>>
        /\ calls = <<>>

\* C3: whatever converse returns or raises, the extractor returns, without
\* raising, a record with exactly the four keys debugInfo, firstName,
\* lastName and dateOfBirth.
C3_RecordHasFourKeys ==
    (pc = "done" /\ pdf_content # <<>>) =>
        /\ ~raised
        /\ patient_data # None
        /\ DOMAIN patient_data = {"debugInfo", "firstName", "lastName", "dateOfBirth"}

\* C4: when the decoded bytes do not start with %PDF-, the extractor returns
\* the record with debugInfo "Invalid PDF file - missing PDF header" and the
\* three fields empty, and no converse call is made.
C4_InvalidHeaderNoInference ==
    LET decoded == b64decode(pdf_content) IN
    (pdf_content # <<>> /\ decoded.ok
        /\ \/ Len(decoded.bytes) < 5
           \/ \E k \in 1..5 : decoded.bytes[k] # <<37, 80, 68, 70, 45>>[k]) =>
        /\ pc = "done"
        /\ ~raised
        /\ patient_data = Annotated(<<"Invalid PDF file - missing PDF header">>)
        /\ calls = <<>>

C4_Witness ==
    /\ pc = "done"
    /\ pdf_content = PdfLower
    /\ pdf_bytes = <<37, 112, 100, 102, 45, 49, 46, 51>>
    /\ patient_data = Annotated(<<"Invalid PDF file - missing PDF header">>)
    /\ IsEnvelope(response) /\ response.statusCode = 200

\* C5: when the primary response reports an empty document, a retry is made;
\* when the first retry's response does not, exactly 2 calls are made and the
\* returned record is the one parsed from the second response.
C5_RetryTakesSecondResponse ==
    (pc = "done" /\ ReturnedAt(1) /\ calls[1].text \in EmptyReplies) =>
        /\ Len(calls) >= 2
        /\ (ReturnedAt(2) /\ calls[2].text \notin EmptyReplies) =>
               /\ Len(calls) = 2
               /\ claude_response = calls[2].text
               /\ patient_data = ParseResponse(calls[2].text)

C5_Witness ==
    /\ pc = "done"
    /\ Len(calls) = 2
    /\ calls[1].text = <<"{", "\"debugInfo\":\"The page looks Blank\"", ",",
                         "\"firstName\":\"Ann\"", "}">>
    /\ calls[2].text = <<"{", "\"firstName\":\"Jane\"", ",", "\"age\":41", "}", "done">>
    /\ patient_data["firstName"] = Str(<<"Jane">>)

\* C6: at most 3 converse calls are made in an invocation, a call is issued
\* only when every earlier call has completed, a retry is issued only while
\* no response received so far is free of "empty"/"blank", and so no call
\* follows a response that is free of them.
C6_AtMostThreeSequentialCalls ==
    /\ Len(calls) <= 3
    /\ \A k \in 1..Len(calls) :
           calls[k].status = "pending" => (k = Len(calls) /\ pc \in {"primary", "retry"})
    /\ \A k \in 2..Len(calls) : \A j \in 1..(k - 1) :
           calls[j].status = "returned" => calls[j].text \in EmptyReplies

C6_Witness ==
    /\ pc = "done"
    /\ Len(calls) = 3
    /\ calls[2].status = "raised"
    /\ calls[3].status = "returned"

\* C7 as stated: every HTTP-mode response, the OPTIONS preflight included,
\* carries the same three CORS header values.
C7_SameCorsEverywhere ==
    (pc = "done" /\ "httpMethod" \in DOMAIN event) =>
        /\ response.headers["Access-Control-Allow-Origin"] = "*"
        /\ response.headers["Access-Control-Allow-Methods"] = "POST, OPTIONS, GET"
        /\ response.headers["Access-Control-Allow-Headers"] =
               "Content-Type, X-Amz-Date, Authorization, X-Api-Key, X-Amz-Security-Token"

\* C7 as amended: every HTTP-mode response has status 200, 400, 405 or 500 and
\* Access-Control-Allow-Origin "*"; the responses other than the preflight
\* all carry Allow-Methods "POST, OPTIONS, GET" and the five-name
\* Allow-Headers, the OPTIONS preflight carries "POST, OPTIONS" and
\* "Content-Type, Authorization".
C7_CorsPerKindOfResponse ==
    (pc = "done" /\ "httpMethod" \in DOMAIN event) =>
        /\ IsEnvelope(response)
        /\ response.statusCode \in {200, 400, 405, 500}
        /\ response.headers["Access-Control-Allow-Origin"] = "*"
        /\ IF event["httpMethod"] = "OPTIONS"
           THEN /\ response.headers["Access-Control-Allow-Methods"] = "POST, OPTIONS"
                /\ response.headers["Access-Control-Allow-Headers"] =
                       "Content-Type, Authorization"
           ELSE /\ response.headers["Access-Control-Allow-Methods"] = "POST, OPTIONS, GET"
                /\ response.headers["Access-Control-Allow-Headers"] =
                       "Content-Type, X-Amz-Date, Authorization, X-Api-Key, X-Amz-Security-Token"

C7_Witness ==
    /\ pc = "done"
    /\ "httpMethod" \in DOMAIN event
    /\ response.statusCode = 500
    /\ response.headers["Access-Control-Allow-Methods"] = "POST, OPTIONS, GET"

\* C8 as stated: whenever a converse call raises, the primary call or a
\* retry, the extractor returns the record whose debugInfo carries the message
\* of that exception and whose three fields are empty, and no exception
\* reaches handler.
C8_AnyRaiseYieldsErrorRecord ==
    \A k \in 1..Len(calls) :
        (pc = "done" /\ calls[k].status = "raised") =>
            /\ ~raised
            /\ patient_data =
                   Annotated(<<"Bedrock Claude PDF support error: ">> \o calls[k].text)

\* C8 as amended: no exception of a converse call reaches handler.  When the
\* primary call raises, it is the only call and the extractor returns the
\* record whose debugInfo is "Bedrock Claude PDF support error: " followed by
\* the message, the three fields empty.  When a retry call raises, the
\* exception is dropped: after the first retry the second retry is still
\* made, and the record returned is the one parsed from the response chosen
\* so far, not an error record of that exception.
C8_PrimaryRaiseYieldsErrorRecord ==
    (pc = "done" /\ calls # <<>>) =>
        /\ ~raised
        /\ calls[1].status = "raised" =>
               /\ Len(calls) = 1
               /\ patient_data =
                      Annotated(<<"Bedrock Claude PDF support error: ">> \o calls[1].text)
        /\ (Len(calls) >= 2 /\ calls[2].status = "raised") => Len(calls) = 3
        /\ (Len(calls) >= 2 /\ \E k \in 2..Len(calls) : calls[k].status = "raised") =>
               /\ claude_response \in {calls[1].text, calls[Len(calls)].text}
               /\ patient_data = ParseResponse(claude_response)

C8_Witness ==
    /\ pc = "done"
    /\ Len(calls) = 1
    /\ calls[1].status = "raised"
    /\ calls[1].text = <<"ThrottlingException">>
    /\ patient_data["debugInfo"] =
           Str(<<"Bedrock Claude PDF support error: ", "ThrottlingException">>)

\* C9 as stated: when the chosen response has no '{' ... '}' pair (no '{', no
\* '}', or no '}' after the first '{'), the record has debugInfo "No JSON
\* response from Claude. Response: " followed by the first 200 units of the
\* response at most, and the three fields empty.
C9_NoBracePairIsNoJson ==
    (pc = "done" /\ ReturnedAt(1)
        /\ ~\E a \in 1..Len(claude_response) : \E b \in (a + 1)..Len(claude_response) :
               claude_response[a] = "{" /\ claude_response[b] = "}") =>
        patient_data = Annotated(<<"No JSON response from Claude. Response: ">>
                                     \o FirstUnits(claude_response, 200))

\* C9 as amended: when the chosen response has no '{' at all or no '}' at
\* all, the record has debugInfo "No JSON response from Claude. Response: "
\* followed by the first 200 units of the response at most, and the three
\* fields empty; when it has both but no '}' after the first '{', the three
\* fields are empty as well and debugInfo starts with "JSON parsing error: ".
C9_NoBraceIsNoJson ==
    LET opens == {k \in 1..Len(claude_response) : claude_response[k] = "{"}
        closes == {k \in 1..Len(claude_response) : claude_response[k] = "}"}
    IN  (pc = "done" /\ ReturnedAt(1)) =>
            /\ (opens = {} \/ closes = {}) =>
                   patient_data = Annotated(<<"No JSON response from Claude. Response: ">>
                                                \o FirstUnits(claude_response, 200))
            /\ (opens # {} /\ closes # {} /\ \A a \in opens : \A b \in closes : b < a) =>
                   /\ DOMAIN patient_data = {"debugInfo", "firstName", "lastName", "dateOfBirth"}
                   /\ patient_data["debugInfo"].s[1] = "JSON parsing error: "
                   /\ \A f \in {"firstName", "lastName", "dateOfBirth"} :
                          patient_data[f] = Str(<<>>)

C9_Witness ==
    /\ pc = "done"
    /\ ReturnedAt(1)
    /\ Len(claude_response) > 200
    /\ \A k \in 1..Len(claude_response) : claude_response[k] = "x"
    /\ Len(patient_data["debugInfo"].s) = 201
    /\ patient_data["debugInfo"].s[1] = "No JSON response from Claude. Response: "

\* C10 as stated: when the primary response and both retry responses all
\* report an empty document, exactly 3 calls are made and the record is the
\* one parsed from the third response.
C10_ParsesLastResponse ==
    (pc = "done" /\ \A k \in 1..3 : ReturnedAt(k) /\ calls[k].text \in EmptyReplies) =>
        /\ Len(calls) = 3
        /\ patient_data = ParseResponse(calls[3].text)

\* C10 as amended: when the primary response and both retry responses all
\* report an empty document, exactly 3 calls are made and the record is the
\* one parsed from the primary response: a retry's response replaces the
\* chosen response only when it does not report an empty document.
C10_ParsesPrimaryResponse ==
    (pc = "done" /\ ReturnedAt(1) /\ calls[1].text \in EmptyReplies) =>
        /\ Len(calls) >= 2
        /\ (ReturnedAt(2) /\ calls[2].text \in EmptyReplies) =>
               /\ Len(calls) = 3
               /\ (ReturnedAt(3) /\ calls[3].text \in EmptyReplies) =>
                      /\ claude_response = calls[1].text
                      /\ patient_data = ParseResponse(calls[1].text)

C10_Witness ==
    /\ pc = "done"
    /\ Len(calls) = 3
    /\ calls[1].text = <<"{", "\"debugInfo\":\"The page looks Blank\"", ",",
                         "\"firstName\":\"Ann\"", "}">>
    /\ calls[2].text = <<"the", "document", "is", "Empty">>
    /\ calls[3].text = <<"EMPTY", "{", "\"firstName\":\"Bob\"", ",", "\"lastName\":\"Doe\"", "}">>
    /\ calls[3].status = "returned"
    /\ patient_data["firstName"] = Str(<<"Ann">>)

\* C11: when the header of a valid PDF declares a version older than 1.5
\* (1.0 to 1.4), the primary converse call carries the simplified prompt;
\* when it declares 1.5 or later, the standard prompt; the primary call
\* carries exactly one of the two.
C11_PromptByDeclaredVersion ==
    (calls # <<>> /\ Len(pdf_bytes) >= 8 /\ pdf_bytes[6] = 49 /\ pdf_bytes[7] = 46) =>
        /\ calls[1].messages.text \in
               {"Please analyze this PDF document and extract patient information. ...",
                "You are a medical document analysis AI specialized in extracting patient information ..."}
        /\ pdf_bytes[8] \in 48..52 =>
               calls[1].messages.text =
                   "Please analyze this PDF document and extract patient information. ..."
        /\ pdf_bytes[8] \in 53..57 =>
               calls[1].messages.text =
                   "You are a medical document analysis AI specialized in extracting patient information ..."

=============================================================================
